---------------------------- MODULE Spec2Model ----------------------------
(***************************************************************************)
(* Model of src/bot_Nirs.py: a chat bot that lets a user browse and search *)
(* a directory of scientific advisors and view an advisor's schedule for   *)
(* the current month.                                                      *)
(*                                                                         *)
(* Text is modelled as a sequence of one-character strings wherever the    *)
(* code looks inside it (date strings, month keys, names, search text).   *)
(* The weekday display names, Russian in the source, are transliterated.  *)
(***************************************************************************)
EXTENDS Integers, Sequences, FiniteSets, TLC

VARIABLES
    user_data,   \* context.user_data of every user
    directory,   \* the rows of the remote table scientific_advisors
    now,         \* the wall clock, as far as datetime.now() is read: year, month
    out,         \* what the last handled update did: replies, lookups, outcome
    requested    \* history: the users whose latest update was the button search_field

vars == <<user_data, directory, now, out, requested>>

-----------------------------------------------------------------------------
(* Bounds of the model *)

\* longest available_days list drawn
MaxAvail == 3
\* most busy_slots dates drawn
MaxBusy == 3
\* most office_hours keys drawn
MaxKeys == 2
\* field buttons f_0 .. f_MaxToken that the transport may deliver
MaxToken == 2

-----------------------------------------------------------------------------
(* Characters and strings *)

DigitChars == <<"0", "1", "2", "3", "4", "5", "6", "7", "8", "9">>

IsDigit(c) == \E i \in 1..10 : DigitChars[i] = c

DigitOf(n) == DigitChars[n + 1]

ValOf(c) == CHOOSE n \in 0..9 : DigitChars[n + 1] = c

\* the characters of the model in code point order
CharOrder ==
    <<" ", "-", "/", "0", "1", "2", "3", "4", "5", "6", "7", "8", "9",
      "A", "B", "E", "I", "K", "L", "O", "R", "X", "_",
      "a", "b", "e", "i", "k", "l", "o", "r", "x">>

Ord(c) == CHOOSE i \in 1..Len(CharOrder) : CharOrder[i] = c

\* Python's < on str: by code point, a proper prefix first
RECURSIVE StrLess(_, _)
StrLess(s, t) ==
    IF t = <<>> THEN FALSE
    ELSE IF s = <<>> THEN TRUE
    ELSE IF Head(s) # Head(t) THEN Ord(Head(s)) < Ord(Head(t))
    ELSE StrLess(Tail(s), Tail(t))

\* decimal digits of n, no padding: str(n), n >= 0
RECURSIVE IntStr(_)
IntStr(n) == IF n < 10 THEN <<DigitOf(n)>> ELSE IntStr(n \div 10) \o <<DigitOf(n % 10)>>

\* f"{n:02d}", n >= 0
Pad2(n) == IF n < 10 THEN <<"0">> \o IntStr(n) ELSE IntStr(n)

\* int(s) for a string of digits
RECURSIVE IntOf(_)
IntOf(s) == IF s = <<>> THEN 0 ELSE 10 * IntOf(SubSeq(s, 1, Len(s) - 1)) + ValOf(s[Len(s)])

AllDigits(s) == \A i \in 1..Len(s) : IsDigit(s[i])

\* s.split(sep) for a one-character separator
RECURSIVE Split(_, _)
Split(s, sep) ==
    IF \A i \in 1..Len(s) : s[i] # sep THEN <<s>>
    ELSE LET i == CHOOSE j \in 1..Len(s) : s[j] = sep /\ \A k \in 1..(j - 1) : s[k] # sep
         IN  <<SubSeq(s, 1, i - 1)>> \o Split(SubSeq(s, i + 1, Len(s)), sep)

\* str.lower() on one character
LowerChar(c) ==
    CASE c = "A" -> "a" [] c = "B" -> "b" [] c = "E" -> "e" [] c = "I" -> "i"
      [] c = "K" -> "k" [] c = "L" -> "l" [] c = "O" -> "o" [] c = "R" -> "r"
      [] c = "X" -> "x" [] OTHER -> c

LowerStr(s) == [i \in 1..Len(s) |-> LowerChar(s[i])]

\* needle occurs in hay
Contains(hay, needle) ==
    \E i \in 1..(Len(hay) - Len(needle) + 1) : SubSeq(hay, i, i + Len(needle) - 1) = needle

-----------------------------------------------------------------------------
(* Dates: datetime.strptime(date_str, '%Y-%m-%d') and date.weekday() *)

is_leap(y) == y % 4 = 0 /\ (y % 100 # 0 \/ y % 400 = 0)

DAYS_IN_MONTH == <<31, 28, 31, 30, 31, 30, 31, 31, 30, 31, 30, 31>>

days_in_month(y, m) == IF m = 2 /\ is_leap(y) THEN 29 ELSE DAYS_IN_MONTH[m]

days_before_year(y) ==
    (y - 1) * 365 + ((y - 1) \div 4) - ((y - 1) \div 100) + ((y - 1) \div 400)

RECURSIVE days_before_month(_, _)
days_before_month(y, m) ==
    IF m = 1 THEN 0 ELSE days_before_month(y, m - 1) + days_in_month(y, m - 1)

ymd2ord(y, m, d) == days_before_year(y) + days_before_month(y, m) + d

\* date.weekday(): Monday = 0 ... Sunday = 6
weekday(y, m, d) == (ymd2ord(y, m, d) + 6) % 7

NoDate == [ok |-> FALSE, year |-> 0, month |-> 0, day |-> 0]

\* strptime with '%Y-%m-%d': four digits, one or two digits for a month 1..12,
\* one or two digits for a day 1..31, and the day must exist in that month;
\* anything else raises ValueError (ok = FALSE)
strptime(date_str) ==
    LET p == Split(date_str, "-")
    IN  IF Len(p) # 3 THEN NoDate
        ELSE IF ~(AllDigits(p[1]) /\ AllDigits(p[2]) /\ AllDigits(p[3])) THEN NoDate
        ELSE IF Len(p[1]) # 4 \/ Len(p[2]) \notin {1, 2} \/ Len(p[3]) \notin {1, 2} THEN NoDate
        ELSE LET y == IntOf(p[1])
                 m == IntOf(p[2])
                 d == IntOf(p[3])
             IN  IF y < 1 \/ m < 1 \/ m > 12 \/ d < 1 THEN NoDate
                 ELSE IF d > days_in_month(y, m) THEN NoDate
                 ELSE [ok |-> TRUE, year |-> y, month |-> m, day |-> d]

\* f"{year}-{month:02d}-{day:02d}"
DateStr(year, month, day) == IntStr(year) \o <<"-">> \o Pad2(month) \o <<"-">> \o Pad2(day)

\* datetime.now().strftime("%Y-%m")
MonthKey(t) == IntStr(t.year) \o <<"-">> \o Pad2(t.month)

-----------------------------------------------------------------------------
(* Weekday names *)

EnglishDays == <<"monday", "tuesday", "wednesday", "thursday", "friday", "saturday", "sunday">>

\* the display names of WEEKDAYS and WEEKDAY_NUMBERS, Monday first
DisplayDays ==
    <<"Ponedelnik", "Vtornik", "Sreda", "Chetverg", "Pyatnica", "Subbota", "Voskresenye">>

WEEKDAYS == [k \in {EnglishDays[i] : i \in 1..7} |->
                DisplayDays[CHOOSE i \in 1..7 : EnglishDays[i] = k]]

WEEKDAY_NUMBERS == [n \in 0..6 |-> DisplayDays[n + 1]]

WEEKDAYS_REVERSE == [v \in {DisplayDays[i] : i \in 1..7} |->
                        EnglishDays[CHOOSE i \in 1..7 : DisplayDays[i] = v]]

\* the office_hours keys the model draws from
OfficeHourKeys ==
    {"monday", "Monday", "WEDNESDAY", "Sreda", "holiday"}

\* str.lower() on the keys of the model
Lower(k) ==
    CASE k = "Monday" -> "monday"
      [] k = "WEDNESDAY" -> "wednesday"
      [] k = "Friday" -> "friday"
      [] k = "Sreda" -> "sreda"
      [] OTHER -> k

ValueError == "ValueError"

\* get_weekday: the display name of the date's weekday, or ValueError raised
get_weekday(date_str) ==
    LET date_obj == strptime(date_str)
    IN  IF ~date_obj.ok THEN ValueError
        ELSE WEEKDAY_NUMBERS[weekday(date_obj.year, date_obj.month, date_obj.day)]

\* as consultation_day, but without day.lower()
consultation_day_case_sensitive(day) == IF day \in DOMAIN WEEKDAYS THEN WEEKDAYS[day] ELSE day
\* WEEKDAYS.get(day.lower(), day): the display name of a key, the key itself if unknown
consultation_day(day) ==
    IF Lower(day) \in DOMAIN WEEKDAYS THEN WEEKDAYS[Lower(day)] ELSE day

\* get_consultation_days; only membership in the list is ever read
get_consultation_days(office_hours) == {consultation_day(k) : k \in DOMAIN office_hours}

-----------------------------------------------------------------------------
(* Sorting: Python's sorted() on a list of int and on a list of str *)

RECURSIVE InsertInt(_, _)
InsertInt(x, s) ==
    IF s = <<>> THEN <<x>>
    ELSE IF x < Head(s) THEN <<x>> \o s
    ELSE <<Head(s)>> \o InsertInt(x, Tail(s))

RECURSIVE sorted_ints(_)
sorted_ints(s) ==
    IF s = <<>> THEN <<>> ELSE InsertInt(s[Len(s)], sorted_ints(SubSeq(s, 1, Len(s) - 1)))

RECURSIVE InsertStr(_, _)
InsertStr(x, s) ==
    IF s = <<>> THEN <<x>>
    ELSE IF StrLess(x, Head(s)) THEN <<x>> \o s
    ELSE <<Head(s)>> \o InsertStr(x, Tail(s))

\* sorted() of a set of distinct strings (the keys of a dict)
RECURSIVE sorted_strs(_)
sorted_strs(S) ==
    IF S = {} THEN <<>>
    ELSE LET x == CHOOSE y \in S : TRUE IN InsertStr(x, sorted_strs(S \ {x}))

-----------------------------------------------------------------------------
(* The schedule of the current month: format_calendar and its helpers *)

Raised == [raised |-> TRUE, val |-> <<>>]

\* as filter_available_days, but keeping every day
filter_available_days_unfiltered(days, year, month, consultation_days) ==
    [raised |-> FALSE, val |-> days]
\* filter_available_days: the days, in their order, whose weekday is a
\* consultation day; get_weekday raising on any day ends it
filter_available_days(days, year, month, consultation_days) ==
    IF \E i \in 1..Len(days) : get_weekday(DateStr(year, month, days[i])) = ValueError
    THEN Raised
    ELSE [raised |-> FALSE,
          val |-> SelectSeq(days,
                     LAMBDA day : get_weekday(DateStr(year, month, day)) \in consultation_days)]

\* months of format_date (genitive) and of format_calendar (nominative)
DateMonths ==
    <<"yanvarya", "fevralya", "marta", "aprelya", "maya", "iyunya",
      "iyulya", "avgusta", "sentyabrya", "oktyabrya", "noyabrya", "dekabrya">>

CalendarMonths ==
    <<"Yanvar", "Fevral", "Mart", "Aprel", "May", "Iyun",
      "Iyul", "Avgust", "Sentyabr", "Oktyabr", "Noyabr", "Dekabr">>

\* format_date: '2025-04-01' becomes day 1, 'aprelya', 2025; ValueError as get_weekday
format_date(date_str) ==
    LET date_obj == strptime(date_str)
    IN  IF ~date_obj.ok THEN <<0, ValueError, 0>>
        ELSE <<date_obj.day, DateMonths[date_obj.month], date_obj.year>>

\* the dates of busy_slots that format_calendar keeps (filtered_busy_slots)
filtered_busy_dates(busy_slots, consultation_days) ==
    {date \in DOMAIN busy_slots : get_weekday(date) \in consultation_days}

\* as busy_lines, but latest date first
busy_lines_descending(busy_slots, consultation_days) ==
    LET dates == sorted_strs(filtered_busy_dates(busy_slots, consultation_days))
    IN  [i \in 1..Len(dates) |->
            [date |-> format_date(dates[Len(dates) + 1 - i]),
             slots |-> busy_slots[dates[Len(dates) + 1 - i]]]]
\* the busy lines of the report, in the order they are appended to the text
busy_lines(busy_slots, consultation_days) ==
    LET dates == sorted_strs(filtered_busy_dates(busy_slots, consultation_days))
    IN  [i \in 1..Len(dates) |-> [date |-> format_date(dates[i]), slots |-> busy_slots[dates[i]]]]

\* what format_calendar returns: one of two fixed texts, or the report of a
\* month; kind "raise" is an exception leaving format_calendar
CalText(kind, month_name, year, days, busy) ==
    [kind |-> kind, month_name |-> month_name, year |-> year, days |-> days, busy |-> busy]

CalendarUnavailable == CalText("CalendarUnavailable", "", 0, <<>>, <<>>)
NoDataForMonth == CalText("NoDataForMonth", "", 0, <<>>, <<>>)
CalRaise == CalText("raise", "", 0, <<>>, <<>>)

\* a month record: the keys it has, and their values ([] and {} when absent,
\* as month_data.get reads them)
MonthRecord(has, available_days, busy_slots) ==
    [has |-> has, available_days |-> available_days, busy_slots |-> busy_slots]

format_calendar(calendar_data, advisor, t) ==
    IF DOMAIN calendar_data = {} THEN CalendarUnavailable
    ELSE LET current_month == MonthKey(t) IN
    IF current_month \notin DOMAIN calendar_data THEN NoDataForMonth
    ELSE LET month_data == calendar_data[current_month] IN
    IF month_data.has = {} THEN NoDataForMonth
    ELSE LET parts == Split(current_month, "-")
             year == IntOf(parts[1])
             month == IntOf(parts[2])
             consultation_days == get_consultation_days(advisor.office_hours)
             filtered_days == filter_available_days(month_data.available_days, year, month,
                                                    consultation_days)
             busy_slots == month_data.busy_slots
         IN  IF filtered_days.raised THEN CalRaise
             ELSE IF \E date \in DOMAIN busy_slots : get_weekday(date) = ValueError THEN CalRaise
             ELSE CalText("report", CalendarMonths[month], year,
                          sorted_ints(filtered_days.val),
                          busy_lines(busy_slots, consultation_days))

\* format_advisor_schedule: the advisor's name above the calendar text
format_advisor_schedule(advisor, t) ==
    [last_name |-> advisor.last_name, cal |-> format_calendar(advisor.calendar, advisor, t)]

-----------------------------------------------------------------------------
(* The directory service: fetch_advisors *)

\* an advisor's id as the JSON carries it: a string, or a number (isStr FALSE);
\* text is str(id)
AdvisorId(isStr, text) == [isStr |-> isStr, text |-> text]

Advisor(id, last_name, research_field, office_hours, calendar) ==
    [id |-> id, last_name |-> last_name, research_field |-> research_field,
     office_hours |-> office_hours, calendar |-> calendar]

\* the search_query argument: None, or a string
NoQuery == [given |-> FALSE, text |-> <<>>]
Query(text) == [given |-> TRUE, text |-> text]

\* what fetch_advisors returns: None (ok FALSE) on a timeout or any other
\* error, else the rows
FetchFailed == [ok |-> FALSE, rows |-> <<>>]

\* last_name.ilike.*q* or research_field.ilike.*q*
ilike_match(advisor, q) ==
    \/ Contains(LowerStr(advisor.last_name), LowerStr(q))
    \/ Contains(LowerStr(advisor.research_field), LowerStr(q))

\* net is whether the request goes through; an empty search_query adds no filter
fetch_advisors(search_query, net, rows) ==
    IF net # "ok" THEN FetchFailed
    ELSE IF search_query.given /\ search_query.text # <<>>
         THEN [ok |-> TRUE, rows |-> SelectSeq(rows, LAMBDA a : ilike_match(a, search_query.text))]
         ELSE [ok |-> TRUE, rows |-> rows]

\* Python's truth value of the result: neither None nor the empty list
Truthy(fetched) == fetched.ok /\ fetched.rows # <<>>

\* get_unique_research_fields, given what its fetch_advisors() returned
get_unique_research_fields(fetched) ==
    IF Truthy(fetched)
    THEN sorted_strs({fetched.rows[i].research_field : i \in 1..Len(fetched.rows)})
    ELSE <<>>

-----------------------------------------------------------------------------
(* Replies and buttons *)

\* callback_data: kind alone, or kind, '_' and arg for the kinds f and s
Button(kind, arg) == [kind |-> kind, arg |-> arg]

MainMenuKeyboard ==
    <<Button("list_advisors", <<>>), Button("search_field", <<>>), Button("help", <<>>)>>

BackToMainKeyboard == <<Button("back_to_main", <<>>)>>

NoCal == CalText("", "", 0, <<>>, <<>>)

\* one reply_text call: the message, what is filled into it, and its keyboard
Reply(msg, args, hours, cal, keyboard) ==
    [msg |-> msg, args |-> args, hours |-> hours, cal |-> cal, keyboard |-> keyboard]

Text(msg, args, keyboard) == Reply(msg, args, {}, NoCal, keyboard)

\* format_advisor_basic_info with the keyboard the handler adds: name, field
\* and the office hours with their days translated (contacts and limits are
\* copied from the record and left out)
format_advisor_basic_info(advisor, keyboard) ==
    Reply("Profile", <<advisor.last_name, advisor.research_field>>,
          {<<consultation_day(day), advisor.office_hours[day]>> : day \in DOMAIN advisor.office_hours},
          NoCal, keyboard)

-----------------------------------------------------------------------------
(* Sessions *)

Users == {"A", "B"}

\* context.user_data of a user: 'fields' (no key and {} are the same to every
\* reader, so an absent key is the empty map) and 'expecting_search'
\* ("absent" until search_field first sets it)
FreshSession == [fields |-> [k \in {} |-> <<>>], expecting_search |-> "absent"]

\* context.user_data.get('expecting_search') as a truth value
Expecting(ud) == ud.expecting_search = "True"

\* what handling one update did
Out(user, event, data, lookups, outcome, answered, raised, replies) ==
    [user |-> user, event |-> event, data |-> data, lookups |-> lookups,
     outcome |-> outcome, answered |-> answered, raised |-> raised, replies |-> replies]

NoOut == Out("", "", <<>>, <<>>, "none", FALSE, FALSE, <<>>)

\* how a lookup ended, for out.outcome
Outcome(fetched) == IF ~fetched.ok THEN "fail" ELSE IF fetched.rows = <<>> THEN "empty" ELSE "rows"

-----------------------------------------------------------------------------
(* The handlers, each as the session and the replies it leaves, given the     *)
(* session it found and what its lookup returned                              *)

Handled(ud, answered, raised, replies) ==
    [ud |-> ud, answered |-> answered, raised |-> raised, replies |-> replies]

\* start
start(ud) == Handled(ud, FALSE, FALSE, <<Text("Welcome", <<>>, MainMenuKeyboard)>>)

\* the token of field number i (counted from 0): str(i)
Token(i) == IntStr(i)

\* context.user_data['fields'] after the loop of list_advisors
merged_fields(old, fields) ==
    [k \in DOMAIN old \cup {Token(i - 1) : i \in 1..Len(fields)} |->
        IF \E i \in 1..Len(fields) : Token(i - 1) = k
        THEN fields[CHOOSE i \in 1..Len(fields) : Token(i - 1) = k]
        ELSE old[k]]

list_advisors(ud, fetched) ==
    LET fields == get_unique_research_fields(fetched)
    IN  IF fields = <<>>
        THEN Handled(ud, TRUE, FALSE, <<Text("FieldsUnavailable", <<>>, <<>>)>>)
        ELSE Handled([ud EXCEPT !.fields = merged_fields(ud.fields, fields)], TRUE, FALSE,
                     <<Text("ChooseField", <<>>,
                            [i \in 1..Len(fields) + 1 |->
                                IF i <= Len(fields) THEN Button("f", Token(i - 1))
                                ELSE Button("back_to_main", <<>>)])>>)

\* query.data.split('_')[1] for the data kind_arg
SecondPart(arg) == Split(arg, "_")[1]

ProfileKeyboard(advisor, back) == <<Button("s", advisor.id.text), Button(back, <<>>)>>

\* show_advisors_by_field up to its lookup: the field the token names, if any
field_known(ud, arg) == SecondPart(arg) \in DOMAIN ud.fields

show_advisors_by_field(ud, arg, fetched) ==
    IF ~field_known(ud, arg)
    THEN Handled(ud, TRUE, FALSE, <<Text("StartOver", <<>>, <<>>)>>)
    ELSE LET field == ud.fields[SecondPart(arg)]
         IN  IF ~Truthy(fetched)
             THEN Handled(ud, TRUE, FALSE, <<Text("NoAdvisorsForField", <<field>>, <<>>)>>)
             ELSE Handled(ud, TRUE, FALSE,
                          <<Text("AdvisorsForField", <<field>>, <<>>)>> \o
                          [i \in 1..Len(fetched.rows) |->
                              format_advisor_basic_info(fetched.rows[i],
                                  ProfileKeyboard(fetched.rows[i], "list_advisors"))])

\* a['id'] == advisor_id, advisor_id a str: a number never equals it
id_matches(a, advisor_id) == a.id.isStr /\ a.id.text = advisor_id

\* as show_schedule, but clearing expecting_search once the schedule is sent,
\* the way handle_search does after its results
show_schedule_resetting(ud, arg, fetched, t) ==
    LET advisor_id == SecondPart(arg)
    IN  IF ~Truthy(fetched)
        THEN Handled(ud, TRUE, FALSE, <<Text("ScheduleUnavailable", <<>>, <<>>)>>)
        ELSE IF \A i \in 1..Len(fetched.rows) : ~id_matches(fetched.rows[i], advisor_id)
        THEN Handled(ud, TRUE, FALSE, <<Text("AdvisorNotFound", <<>>, <<>>)>>)
        ELSE LET i == CHOOSE j \in 1..Len(fetched.rows) :
                          /\ id_matches(fetched.rows[j], advisor_id)
                          /\ \A k \in 1..(j - 1) : ~id_matches(fetched.rows[k], advisor_id)
                 message == format_advisor_schedule(fetched.rows[i], t)
             IN  IF message.cal.kind = "raise"
                 THEN Handled(ud, TRUE, TRUE, <<>>)
                 ELSE Handled([ud EXCEPT !.expecting_search = "False"], TRUE, FALSE,
                              <<Reply("Schedule", <<message.last_name>>, {}, message.cal,
                                      <<Button("list_advisors", <<>>)>>)>>)
\* show_schedule: the first row whose id equals the pressed one is rendered
show_schedule(ud, arg, fetched, t) ==

    LET advisor_id == SecondPart(arg)
    IN  IF ~Truthy(fetched)
        THEN Handled(ud, TRUE, FALSE, <<Text("ScheduleUnavailable", <<>>, <<>>)>>)
        ELSE IF \A i \in 1..Len(fetched.rows) : ~id_matches(fetched.rows[i], advisor_id)
        THEN Handled(ud, TRUE, FALSE, <<Text("AdvisorNotFound", <<>>, <<>>)>>)
        ELSE LET i == CHOOSE j \in 1..Len(fetched.rows) :
                          /\ id_matches(fetched.rows[j], advisor_id)
                          /\ \A k \in 1..(j - 1) : ~id_matches(fetched.rows[k], advisor_id)
                 message == format_advisor_schedule(fetched.rows[i], t)
             IN  IF message.cal.kind = "raise"
                 THEN Handled(ud, TRUE, TRUE, <<>>)
                 ELSE Handled(ud, TRUE, FALSE,
                              <<Reply("Schedule", <<message.last_name>>, {}, message.cal,
                                      <<Button("list_advisors", <<>>)>>)>>)

\* as search_field, but without setting expecting_search
search_field_unset(ud) ==
    Handled(ud, TRUE, FALSE, <<Text("SearchPrompt", <<>>, BackToMainKeyboard)>>)
\* search_field: the prompt, then expecting_search is set
search_field(ud) ==
    Handled([ud EXCEPT !.expecting_search = "True"], TRUE, FALSE,
            <<Text("SearchPrompt", <<>>, BackToMainKeyboard)>>)

\* as handle_search, but without the test of expecting_search
handle_search_unguarded(ud, search_query, fetched) ==
    IF ~fetched.ok
    THEN Handled(ud, FALSE, FALSE, <<Text("SearchError", <<>>, <<>>)>>)
    ELSE IF fetched.rows = <<>>
    THEN Handled(ud, FALSE, FALSE, <<Text("NothingFound", <<search_query>>, BackToMainKeyboard)>>)
    ELSE Handled([ud EXCEPT !.expecting_search = "False"], FALSE, FALSE,
                 <<Text("SearchResults", <<>>, <<>>)>>)
\* handle_search: nothing unless expecting_search is set; the flag is cleared
\* only after results were sent
handle_search(ud, search_query, fetched) ==
    IF ~Expecting(ud) THEN Handled(ud, FALSE, FALSE, <<>>)
    ELSE IF ~fetched.ok
    THEN Handled(ud, FALSE, FALSE, <<Text("SearchError", <<>>, <<>>)>>)
    ELSE IF fetched.rows = <<>>
    THEN Handled(ud, FALSE, FALSE, <<Text("NothingFound", <<search_query>>, BackToMainKeyboard)>>)
    ELSE Handled([ud EXCEPT !.expecting_search = "False"], FALSE, FALSE,
                 <<Text("SearchResults", <<>>, <<>>)>> \o
                 [i \in 1..Len(fetched.rows) |->
                     format_advisor_basic_info(fetched.rows[i],
                         ProfileKeyboard(fetched.rows[i], "back_to_main"))])

back_to_main(ud) == Handled(ud, TRUE, FALSE, <<Text("MainMenu", <<>>, MainMenuKeyboard)>>)

\* help_command: as the /help command the update has no callback_query, and
\* update.callback_query.answer() raises before anything is sent
help_command(ud, via) ==
    IF via = "command" THEN Handled(ud, FALSE, TRUE, <<>>)
    ELSE Handled(ud, TRUE, FALSE, <<Text("Help", <<>>, BackToMainKeyboard)>>)

-----------------------------------------------------------------------------
(* The data the model draws from *)

Apr2025 == [year |-> 2025, month |-> 4]
May2025 == [year |-> 2025, month |-> 5]

\* 2025-04-07 and 2025-03-31 are Mondays, 2025-04-02 a Wednesday; April has no 31st
Mon0407 == <<"2", "0", "2", "5", "-", "0", "4", "-", "0", "7">>
Wed0402 == <<"2", "0", "2", "5", "-", "0", "4", "-", "0", "2">>
Mon0331 == <<"2", "0", "2", "5", "-", "0", "3", "-", "3", "1">>
Bad0431 == <<"2", "0", "2", "5", "-", "0", "4", "-", "3", "1">>

BusyDates == {Mon0407, Wed0402, Mon0331, Bad0431}

\* the slot labels of a date, in the order the record lists them
SlotsOf(date) ==
    IF date = Mon0407 THEN <<"14:00-15:00", "09:00-10:00">>
    ELSE IF date = Wed0402 THEN <<"11:00-12:00">>
    ELSE <<"16:00-17:00">>

BusyMaps == {[date \in S |-> SlotsOf(date)] : S \in {T \in SUBSET BusyDates : Cardinality(T) <= MaxBusy}}

NoBusy == [date \in {} |-> <<>>]

\* day numbers of available_days: in April 2025 the 2nd is a Wednesday, the
\* 7th a Monday, and there is no 31st
DayValues == {2, 7, 31}

RECURSIVE SeqsUpTo(_, _)
SeqsUpTo(S, n) ==
    IF n = 0 THEN {<<>>}
    ELSE LET shorter == SeqsUpTo(S, n - 1)
         IN  shorter \cup {Append(q, x) : q \in shorter, x \in S}

ScenarioDays == <<1, 2, 3, 4, 5>>

AvailLists == SeqsUpTo(DayValues, MaxAvail) \cup {ScenarioDays}

OfficeHours == {[k \in K |-> "10-12"] : K \in {T \in SUBSET OfficeHourKeys : Cardinality(T) <= MaxKeys}}

ScenarioHours == [k \in {"monday", "wednesday"} |-> IF k = "monday" THEN "10-12" ELSE "14-16"]

AllKeys == {"available_days", "busy_slots"}

MonthRecords ==
    {MonthRecord(AllKeys, a, b) : a \in AvailLists, b \in BusyMaps}
    \cup {MonthRecord({"available_days"}, a, NoBusy) : a \in AvailLists}
    \cup {MonthRecord({"busy_slots"}, <<>>, b) : b \in BusyMaps}
    \cup {MonthRecord({}, <<>>, NoBusy)}

NoCalendar == [k \in {} |-> MonthRecord({}, <<>>, NoBusy)]

Calendars ==
    {NoCalendar}
    \cup {[k \in {MonthKey(May2025)} |-> MonthRecord(AllKeys, <<2>>, NoBusy)]}
    \cup {[k \in {MonthKey(Apr2025)} |-> r] : r \in MonthRecords}

Li == <<"L", "i">>
Kai == <<"K", "a", "i">>
Roe == <<"R", "o", "e">>
AI == <<"A", "I">>
AIE == <<"A", "I", "E">>
Bio == <<"B", "i", "o">>

\* the directories of the conversation model: rows with a string id, a
\* numeric id and an id holding the separator
Row1 ==
    Advisor(AdvisorId(TRUE, <<"1">>), Li, AI, ScenarioHours,
            [k \in {MonthKey(Apr2025)} |->
                MonthRecord(AllKeys, <<7, 1>>, [date \in {Mon0407} |-> SlotsOf(date)])])
Row2 ==
    Advisor(AdvisorId(FALSE, <<"2">>), Kai, Bio, [k \in {"Friday"} |-> "9-11"], NoCalendar)
Row3 ==
    Advisor(AdvisorId(TRUE, <<"1", "_", "x">>), Roe, AIE, [k \in {"sreda"} |-> "12-13"],
            [k \in {MonthKey(May2025)} |-> MonthRecord({}, <<>>, NoBusy)])

Directories == {<<>>, <<Row1, Row2>>, <<Row1, Row2, Row3>>}

\* the text messages a user sends
SearchTexts == {<<"a", "i">>, <<"x">>}

\* the f_ and s_ buttons a user can press: any ever shown stays on screen
FieldArgs == {Token(i) : i \in 0..MaxToken}
ScheduleArgs == {<<"1">>, <<"2">>, <<"1", "_", "x">>, <<"9">>}

Net == {"ok", "fail"}

-----------------------------------------------------------------------------
(* The updates *)

\* as Finish, but with one user_data shared by all users
Finish_shared(u, event, data, lookups, outcome, r) ==
    /\ user_data' = [v \in Users |-> r.ud]
    /\ out' = Out(u, event, data, lookups, outcome, r.answered, r.raised, r.replies)
    /\ requested' = IF event = "search_field" THEN requested \cup {u} ELSE requested \ {u}
    /\ UNCHANGED <<directory, now>>
\* one update of user u handled: r is what its handler leaves
Finish(u, event, data, lookups, outcome, r) ==
    /\ user_data' = [user_data EXCEPT ![u] = r.ud]
    /\ out' = Out(u, event, data, lookups, outcome, r.answered, r.raised, r.replies)
    /\ requested' = IF event = "search_field" THEN requested \cup {u} ELSE requested \ {u}
    /\ UNCHANGED <<directory, now>>

\* /start
Start(u) == Finish(u, "start", <<>>, <<>>, "none", start(user_data[u]))

\* as ListAdvisors, but fetching once more after a failed lookup
ListAdvisors_retrying(u, net) ==
    LET fetched == fetch_advisors(NoQuery, net, directory)
    IN  Finish(u, "list_advisors", <<>>,
               IF fetched.ok THEN <<NoQuery>> ELSE <<NoQuery, NoQuery>>, Outcome(fetched),
               list_advisors(user_data[u], fetched))
\* button list_advisors
ListAdvisors(u, net) ==
    LET fetched == fetch_advisors(NoQuery, net, directory)
    IN  Finish(u, "list_advisors", <<>>, <<NoQuery>>, Outcome(fetched),
               list_advisors(user_data[u], fetched))

\* button f_arg
ShowAdvisorsByField(u, arg, net) ==
    IF ~field_known(user_data[u], arg)
    THEN Finish(u, "f", arg, <<>>, "none", show_advisors_by_field(user_data[u], arg, FetchFailed))
    ELSE LET search_query == Query(user_data[u].fields[SecondPart(arg)])
             fetched == fetch_advisors(search_query, net, directory)
         IN  Finish(u, "f", arg, <<search_query>>, Outcome(fetched),
                    show_advisors_by_field(user_data[u], arg, fetched))

\* button s_arg
ShowSchedule(u, arg, net) ==
    LET fetched == fetch_advisors(NoQuery, net, directory)
    IN  Finish(u, "s", arg, <<NoQuery>>, Outcome(fetched),
               show_schedule(user_data[u], arg, fetched, now))

\* button search_field
SearchField(u) == Finish(u, "search_field", <<>>, <<>>, "none", search_field(user_data[u]))

\* a text message that is no command
HandleSearch(u, text, net) ==
    IF ~Expecting(user_data[u])
    THEN Finish(u, "text", text, <<>>, "none", handle_search(user_data[u], text, FetchFailed))
    ELSE LET fetched == fetch_advisors(Query(text), net, directory)
         IN  Finish(u, "text", text, <<Query(text)>>, Outcome(fetched),
                    handle_search(user_data[u], text, fetched))

\* button back_to_main
BackToMain(u) == Finish(u, "back_to_main", <<>>, <<>>, "none", back_to_main(user_data[u]))

\* button help, or /help
HelpCommand(u, via) == Finish(u, "help", <<>>, <<>>, "none", help_command(user_data[u], via))

\* the table changes between two updates
DirectoryChange ==
    /\ \E d \in Directories : d # directory /\ directory' = d
    /\ UNCHANGED <<user_data, now, out, requested>>

\* the month ends
Tick ==
    /\ now = Apr2025
    /\ now' = May2025
    /\ UNCHANGED <<user_data, directory, out, requested>>

-----------------------------------------------------------------------------
(* The conversations of two users over a changing directory *)

Init ==
    /\ user_data = [u \in Users |-> FreshSession]
    /\ directory \in Directories
    /\ now = Apr2025
    /\ out = NoOut
    /\ requested = {}

Next ==
    \/ \E u \in Users : Start(u)
    \/ \E u \in Users, net \in Net : ListAdvisors(u, net)
    \/ \E u \in Users, arg \in FieldArgs, net \in Net : ShowAdvisorsByField(u, arg, net)
    \/ \E u \in Users, arg \in ScheduleArgs, net \in Net : ShowSchedule(u, arg, net)
    \/ \E u \in Users : SearchField(u)
    \/ \E u \in Users, text \in SearchTexts, net \in Net : HandleSearch(u, text, net)
    \/ \E u \in Users : BackToMain(u)
    \/ \E u \in Users, via \in {"button", "command"} : HelpCommand(u, via)
    \/ DirectoryChange

Spec == Init /\ [][Next]_vars

-----------------------------------------------------------------------------
(* The schedule view over drawn advisor records: one row, any office hours  *)
(* and any calendar of the bounded sets                                      *)

InitCal ==
    /\ user_data = [u \in Users |-> FreshSession]
    /\ \E h \in OfficeHours \cup {ScenarioHours}, c \in Calendars :
           directory = <<Advisor(AdvisorId(TRUE, <<"1">>), Li, AI, h, c)>>
    /\ now = Apr2025
    /\ out = NoOut
    /\ requested = {}

NextCal ==
    \/ \E net \in Net : ShowSchedule("A", <<"1">>, net)
    \/ Tick

SpecCal == InitCal /\ [][NextCal]_vars

-----------------------------------------------------------------------------
(* What the claims speak of *)

\* the last update rendered a month report
IsReport ==
    /\ out.event = "s"
    /\ out.replies # <<>>
    /\ out.replies[1].msg = "Schedule"
    /\ out.replies[1].cal.kind = "report"

ReportCal == out.replies[1].cal

\* the month the report's header names
ReportMonth == CHOOSE m \in 1..12 : CalendarMonths[m] = ReportCal.month_name

\* the row the schedule was rendered from: the first whose id is the pressed one
ShownRow ==
    directory[CHOOSE i \in 1..Len(directory) :
                 /\ directory[i].id.isStr
                 /\ directory[i].id.text = Split(out.data, "_")[1]
                 /\ \A j \in 1..(i - 1) :
                        ~(directory[j].id.isStr /\ directory[j].id.text = Split(out.data, "_")[1])]

\* the month record the report was rendered from
ShownRecord == ShownRow.calendar[IntStr(ReportCal.year) \o <<"-">> \o Pad2(ReportMonth)]

\* the weekday of a Gregorian date, Monday = 0, by Sakamoto's method
GregorianOffsets == <<0, 3, 2, 5, 0, 3, 5, 1, 4, 6, 2, 4>>

GregorianWeekday(year, month, day) ==
    LET y == IF month < 3 THEN year - 1 ELSE year
        sundayFirst == (y + (y \div 4) - (y \div 100) + (y \div 400)
                        + GregorianOffsets[month] + day) % 7
    IN  (sundayFirst + 6) % 7

\* key names weekday n: it is the canonical key in any case, or the display name
KeyNames(k, n) == Lower(k) = EnglishDays[n + 1] \/ k = DisplayDays[n + 1]

OfficeDay(hours, year, month, day) ==
    \E k \in DOMAIN hours : KeyNames(k, GregorianWeekday(year, month, day))

Count(s, x) == Cardinality({i \in 1..Len(s) : s[i] = x})

\* C1: every day a month report lists as available is one of the month
\* record's available_days and falls on a weekday that a key of the
\* advisor's office hours names.
C1_ReportedDaysAreOfficeDays ==
    IsReport =>
        \A i \in 1..Len(ReportCal.days) :
            /\ \E j \in 1..Len(ShownRecord.available_days) :
                   ShownRecord.available_days[j] = ReportCal.days[i]
            /\ OfficeDay(ShownRow.office_hours, ReportCal.year, ReportMonth, ReportCal.days[i])

\* a report that lists a day and leaves out another of available_days
C1_Witness ==
    /\ IsReport
    /\ Len(ReportCal.days) >= 1
    /\ Len(ReportCal.days) < Len(ShownRecord.available_days)

\* C2: the listed days are in ascending order, and every day number occurs
\* as often as in available_days if its weekday is named by an office-hours
\* key (in any case) and not at all otherwise; office hours monday and
\* wednesday with available_days 1..5 in 2025-04 give the list [2].
C2_ReportedDaysAreTheReference ==
    IsReport =>
        /\ \A i \in 1..(Len(ReportCal.days) - 1) : ReportCal.days[i] <= ReportCal.days[i + 1]
        /\ \A d \in 1..31 :
               Count(ReportCal.days, d) =
                   IF OfficeDay(ShownRow.office_hours, ReportCal.year, ReportMonth, d)
                   THEN Count(ShownRecord.available_days, d)
                   ELSE 0
        /\ (/\ ShownRow.office_hours = ScenarioHours
            /\ ShownRecord.available_days = ScenarioDays
            /\ ReportCal.year = 2025
            /\ ReportMonth = 4) => ReportCal.days = <<2>>

\* a report for office hours keyed "Monday" alone, of an unsorted list with a
\* repeated Monday and a Wednesday
C2_Witness ==
    /\ IsReport
    /\ DOMAIN ShownRow.office_hours = {"Monday"}
    /\ ShownRecord.available_days = <<7, 2, 7>>
    /\ ReportCal.days = <<7, 7>>

\* year, month and day of a date key in the form YYYY-MM-DD, read off its digits
KeyDate(date) == <<IntOf(SubSeq(date, 1, 4)), IntOf(SubSeq(date, 6, 7)), IntOf(SubSeq(date, 9, 10))>>

\* the label of a report line, as year, month, day
LineDate(line) ==
    <<line.date[3], CHOOSE m \in 1..12 : DateMonths[m] = line.date[2], line.date[1]>>

DateBefore(a, b) ==
    \/ a[1] < b[1]
    \/ a[1] = b[1] /\ a[2] < b[2]
    \/ a[1] = b[1] /\ a[2] = b[2] /\ a[3] < b[3]

\* the dates of the record that fall on an office-hours weekday
OfficeBusyDates ==
    {date \in DOMAIN ShownRecord.busy_slots :
        OfficeDay(ShownRow.office_hours, KeyDate(date)[1], KeyDate(date)[2], KeyDate(date)[3])}

\* C3: the busy lines of a month report are one line for each date of
\* busy_slots that falls on an office-hours weekday and for no other date,
\* each with the slots of that date in their order, in ascending date order.
C3_BusyLinesAreFilteredAndSorted ==
    IsReport =>
        /\ Len(ReportCal.busy) = Cardinality(OfficeBusyDates)
        /\ \A date \in OfficeBusyDates :
               \E i \in 1..Len(ReportCal.busy) :
                   /\ LineDate(ReportCal.busy[i]) = KeyDate(date)
                   /\ ReportCal.busy[i].slots = ShownRecord.busy_slots[date]
        /\ \A i \in 1..(Len(ReportCal.busy) - 1) :
               DateBefore(LineDate(ReportCal.busy[i]), LineDate(ReportCal.busy[i + 1]))

\* a report with two busy lines, stored out of date order, and a date dropped
C3_Witness ==
    /\ IsReport
    /\ DOMAIN ShownRecord.busy_slots = {Mon0407, Wed0402, Mon0331}
    /\ Len(ReportCal.busy) = 2
    /\ ReportCal.busy[2].slots = <<"14:00-15:00", "09:00-10:00">>

\* a text message to user u would be ignored: no lookup, no reply, no change
TextIgnored(u) ==
    /\ ~Expecting(user_data[u])
    /\ \A text \in SearchTexts, net \in Net :
           LET r == handle_search(user_data[u], text, fetch_advisors(Query(text), net, directory))
           IN  r.replies = <<>> /\ r.ud = user_data[u]

\* C4: after /start or back_to_main is handled, a text message of that user
\* is ignored (the session is idle).
C4_MenuLeavesIdle ==
    out.event \in {"start", "back_to_main"} => TextIgnored(out.user)

\* C5: after a text message is handled as a search, whatever the lookup
\* returned, a further text message of that user is ignored.
C5_SearchLeavesIdle ==
    (out.event = "text" /\ out.lookups # <<>>) => TextIgnored(out.user)

\* the step handles a text message, of user out'.user with the text out'.data:
\* the updates, and no other step, leave the directory and the clock alone
TextStep == out'.event = "text" /\ directory' = directory /\ now' = now

\* C6: a text message handled while the session does not await search text
\* sends no reply, makes no lookup and changes no session.
C6_StrayTextIgnored ==
    [][(TextStep /\ ~Expecting(user_data[out'.user])) =>
           /\ out'.replies = <<>>
           /\ out'.lookups = <<>>
           /\ out'.outcome = "none"
           /\ user_data' = user_data]_vars

\* a text message ignored in a session that holds a token map
C6_Witness ==
    /\ out.event = "text"
    /\ out.replies = <<>>
    /\ out.lookups = <<>>
    /\ DOMAIN user_data[out.user].fields # {}
    /\ user_data[out.user].expecting_search = "False"

\* the tokens on the f_ buttons of a reply
ShownTokens(reply) ==
    {reply.keyboard[i].arg : i \in {j \in 1..Len(reply.keyboard) : reply.keyboard[j].kind = "f"}}

\* C7: once a field list is displayed, the tokens the session resolves are
\* exactly the tokens on the buttons of that display.
C7_TokensAreTheLatestDisplay ==
    (out.event = "list_advisors" /\ out.replies[1].msg = "ChooseField") =>
        DOMAIN user_data[out.user].fields = ShownTokens(out.replies[1])

\* C8: a field button whose token the session does not hold gets the start
\* over reply, makes no lookup and leaves the session idle, so that a text
\* message of that user is ignored.
C8_UnknownTokenResetsSession ==
    (out.event = "f" /\ out.replies[1].msg = "StartOver") =>
        /\ out.lookups = <<>>
        /\ TextIgnored(out.user)

\* an empty result of the directory
FetchedNothing == [ok |-> TRUE, rows |-> <<>>]

\* what the handler of the last update replies when its lookup finds nothing
RepliesOnNothing ==
    CASE out.event = "list_advisors" ->
             list_advisors(user_data[out.user], FetchedNothing).replies
      [] out.event = "f" ->
             show_advisors_by_field(user_data[out.user], out.data, FetchedNothing).replies
      [] out.event = "s" ->
             show_schedule(user_data[out.user], out.data, FetchedNothing, now).replies
      [] OTHER ->
             handle_search(user_data[out.user], out.data, FetchedNothing).replies

\* C9: the reply to an update whose lookup failed differs from the reply the
\* same update gets when the lookup succeeds with no rows.
C9_FailureIsNotNotFound ==
    out.outcome = "fail" => out.replies # RepliesOnNothing

\* C10: an update of one user leaves every other user's session as it was,
\* and a text message is a search with that text if its sender awaits search
\* text and is ignored otherwise, whatever the other sessions hold.
C10_SessionsAreIsolated ==
    [][/\ \A v \in Users : v # out'.user => user_data'[v] = user_data[v]
       /\ TextStep =>
              IF Expecting(user_data[out'.user])
              THEN out'.lookups = <<Query(out'.data)>> /\ out'.replies # <<>>
              ELSE out'.lookups = <<>> /\ out'.replies = <<>>]_vars

\* B's text was just ignored while A still awaits search text and B holds a
\* token map of its own
C10_Witness ==
    /\ out.user = "B"
    /\ out.event = "text"
    /\ out.replies = <<>>
    /\ Expecting(user_data["A"])
    /\ ~Expecting(user_data["B"])
    /\ DOMAIN user_data["B"].fields # {}
    /\ DOMAIN user_data["A"].fields = {}

\* the step handles an update of kind e, of user out'.user: the updates, and no
\* other step, leave the directory and the clock alone
HandledStep(e) == out'.event = e /\ directory' = directory /\ now' = now

\* C11: a help update, sent as the command /help or as the button, is replied
\* to with the help text and its back button and leaves every session as it was.
C11_HelpRepliesAndKeepsState ==
    [][HandledStep("help") =>
           /\ out'.replies = <<Text("Help", <<>>, BackToMainKeyboard)>>
           /\ user_data' = user_data]_vars

\* year, month, day is a date of the Gregorian calendar
IsCalendarDate(year, month, day) ==
    /\ month \in 1..12
    /\ day >= 1
    /\ day <= (IF month \in {4, 6, 9, 11} THEN 30
               ELSE IF month # 2 THEN 31
               ELSE IF year % 4 = 0 /\ (year % 100 # 0 \/ year % 400 = 0) THEN 29
               ELSE 28)

\* the month record has a busy_slots key that is no date, or a day of
\* available_days that is no day of the month t
Malformed(record, t) ==
    \/ \E date \in DOMAIN record.busy_slots :
           ~IsCalendarDate(KeyDate(date)[1], KeyDate(date)[2], KeyDate(date)[3])
    \/ \E i \in 1..Len(record.available_days) :
           ~IsCalendarDate(t.year, t.month, record.available_days[i])

\* the last update was a schedule button, its lookup returned rows and one of
\* them has the pressed id
AdvisorLocated ==
    /\ out.event = "s"
    /\ out.outcome = "rows"
    /\ \E i \in 1..Len(directory) :
           directory[i].id.isStr /\ directory[i].id.text = Split(out.data, "_")[1]

\* C12: a schedule button for an advisor whose record of the current month
\* holds a malformed busy_slots key or an available_days entry that is no day
\* of that month is replied to, not with a report, and the user is left not
\* awaiting search text.
C12_MalformedDateGetsErrorReply ==
    [][(/\ HandledStep("s")
        /\ AdvisorLocated'
        /\ MonthKey(now) \in DOMAIN ShownRow'.calendar
        /\ Malformed(ShownRow'.calendar[MonthKey(now)], now)) =>
           /\ out'.replies # <<>>
           /\ out'.replies[1].msg # "Schedule"
           /\ ~Expecting(user_data'[out'.user])]_vars

\* C13: the schedule of a located advisor is the calendar-unavailable text
\* exactly when the advisor has no calendar, the no-data text exactly when the
\* calendar has no record of the current month, and a month report exactly
\* when it has one (well-formed records; a record's content plays no part).
C13_ThreeScheduleOutcomes ==
    [][(HandledStep("s") /\ AdvisorLocated' /\ ~out'.raised) =>
           /\ (out'.replies[1].cal.kind = "CalendarUnavailable")
                  <=> (DOMAIN ShownRow'.calendar = {})
           /\ (out'.replies[1].cal.kind = "NoDataForMonth")
                  <=> (/\ DOMAIN ShownRow'.calendar # {}
                       /\ MonthKey(now) \notin DOMAIN ShownRow'.calendar)
           /\ (out'.replies[1].cal.kind = "report")
                  <=> (MonthKey(now) \in DOMAIN ShownRow'.calendar)]_vars

\* C14: two schedule renderings of the same advisor record, one after the
\* other, send the same reply, whatever the clock reads at each.
C14_RenderingIgnoresTheClock ==
    [][(/\ out.event = "s" /\ out.outcome = "rows"
        /\ out'.event = "s" /\ out'.outcome = "rows"
        /\ out'.data = out.data
        /\ directory' = directory) =>
           /\ out'.replies = out.replies
           /\ out'.raised = out.raised]_vars

\* C15: a field button pressed right after the same user's /start,
\* back_to_main or search_field, with no field list displayed in between,
\* gets the start over reply.
C15_NavigationInvalidatesTokens ==
    [][(/\ out.event \in {"start", "back_to_main", "search_field"}
        /\ HandledStep("f")
        /\ out'.user = out.user) =>
           out'.replies[1].msg = "StartOver"]_vars

\* C16: a text message of a user whose latest update was the button
\* search_field, whatever the other users did in between, makes exactly one
\* lookup, with the message as its query, and is replied to with the search
\* error, the nothing-found text or the results.
C16_SearchTextIsSearched ==
    [][(TextStep /\ out'.user \in requested) =>
           /\ out'.lookups = <<Query(out'.data)>>
           /\ out'.replies # <<>>
           /\ out'.replies[1].msg =
                  (CASE out'.outcome = "fail" -> "SearchError"
                     [] out'.outcome = "empty" -> "NothingFound"
                     [] OTHER -> "SearchResults")]_vars

\* B's text was searched and found advisors while A's search request is
\* still open
C16_Witness ==
    /\ out.event = "text"
    /\ out.user = "B"
    /\ out.lookups = <<Query(out.data)>>
    /\ out.outcome = "rows"
    /\ out.replies[1].msg = "SearchResults"
    /\ requested = {"A"}

\* C17: an update makes at most one lookup, also when the lookup fails: none
\* for /start, back_to_main, help, search_field, a text message of a user not
\* awaiting search text and a field button whose token the session does not
\* hold; exactly one for list_advisors, a field button with a token the
\* session holds, a schedule button and a text message of a user awaiting
\* search text.
C17_AtMostOneLookup ==
    [][(directory' = directory /\ now' = now /\ out'.event # "") =>
           /\ Len(out'.lookups) <= 1
           /\ out'.event \in {"start", "back_to_main", "help", "search_field"} =>
                  out'.lookups = <<>>
           /\ out'.event \in {"list_advisors", "s"} => Len(out'.lookups) = 1
           /\ out'.event = "f" =>
                  Len(out'.lookups) =
                      IF out'.data \in DOMAIN user_data[out'.user].fields THEN 1 ELSE 0
           /\ out'.event = "text" =>
                  Len(out'.lookups) = IF Expecting(user_data[out'.user]) THEN 1 ELSE 0]_vars

\* a field button with a token the session holds whose one lookup failed
C17_Witness ==
    /\ out.event = "f"
    /\ out.outcome = "fail"
    /\ Len(out.lookups) = 1
    /\ out.data \in DOMAIN user_data[out.user].fields

\* C18: a schedule button leaves every session as it was, whether the lookup
\* fails, the advisor is not found or the schedule is rendered.
C18_ScheduleKeepsSession ==
    [][HandledStep("s") => user_data' = user_data]_vars

\* a schedule was rendered for a user who awaits search text and holds a
\* token map
C18_Witness ==
    /\ out.event = "s"
    /\ out.replies # <<>>
    /\ out.replies[1].msg = "Schedule"
    /\ Expecting(user_data[out.user])
    /\ DOMAIN user_data[out.user].fields # {}

\* C19: a user presses the schedule button of a profile that the update before
\* showed to that user, the advisor of the profile is still in the directory
\* under that id, and the lookup returns rows: the reply is the schedule of
\* that advisor.
C19_AdvisorTokenRoundTrip ==
    [][\A j \in 1..Len(out.replies) :
           (/\ HandledStep("s")
            /\ out'.user = out.user
            /\ out'.outcome = "rows"
            /\ out.replies[j].msg = "Profile"
            /\ out.replies[j].keyboard[1] = Button("s", out'.data)
            /\ \E i \in 1..Len(directory) :
                   /\ directory[i].id.text = out'.data
                   /\ directory[i].last_name = out.replies[j].args[1]) =>
               /\ out'.replies # <<>>
               /\ out'.replies[1].msg = "Schedule"
               /\ out'.replies[1].args = <<out.replies[j].args[1]>>]_vars

\* the last names on the profiles among the replies
ShownNames(replies) ==
    {replies[j].args[1] : j \in {k \in 1..Len(replies) : replies[k].msg = "Profile"}}

\* C20: a field button with a token the session holds, whose lookup goes
\* through, shows the profiles of exactly the advisors of the directory whose
\* research field is the field of the token.
C20_FieldSelectionIsExact ==
    [][(/\ HandledStep("f")
        /\ out'.data \in DOMAIN user_data[out'.user].fields
        /\ out'.outcome # "fail") =>
           ShownNames(out'.replies) =
               {directory[i].last_name :
                    i \in {k \in 1..Len(directory) :
                              directory[k].research_field =
                                  user_data[out'.user].fields[out'.data]}}]_vars

=============================================================================
